---- MODULE Spec2Model ----
(***************************************************************************)
(* Model of stateinterpreter.MD.Loader (src/stateinterpreter/MD.py).       *)
(*                                                                         *)
(* The Loader owns the tables (colvar, descriptors), fits a density        *)
(* estimate on selected collective variables, asks for the local minima of *)
(* the free energy surface, labels every retained frame with a basin and   *)
(* a selection flag, and merges everything into one table.                 *)
(*                                                                         *)
(* A pandas DataFrame is a sequence of rows; each row carries its index    *)
(* label `idx` (what pd.concat aligns on) and, as a ghost field, the frame *)
(* of the input the row was computed from.  A numpy (N, D) array is a      *)
(* sequence of N points, a point a sequence of D integers.  A raised       *)
(* exception is an outcome record [exc |-> name]; a call that raises       *)
(* leaves every assignment after the raising line undone.                  *)
(***************************************************************************)
EXTENDS Integers, Sequences, FiniteSets, TLC

VARIABLES colvar, descriptors, kbt, stride, traj, basins,
          selected_cvs, KDE, fes, minima, ret, hist

vars == <<colvar, descriptors, kbt, stride, traj, basins,
          selected_cvs, KDE, fes, minima, ret, hist>>

(* ------------------------------ bounds -------------------------------- *)
MaxCoord == 1      \* coordinates of samples and minima are 0..MaxCoord
MaxFrames == 3     \* frames of an input table / trajectory
MaxStride == 2     \* stride of the constructor
MaxKbt == 1        \* temperature of the constructor
MaxSamples == 3    \* samples of a directly built density (basin specs)
MaxMinima == 2     \* minima handed to _basin_selection
MaxDim == 3        \* dimension of samples and minima (dimension spec)
MaxFes == 1        \* free energy values of an arbitrary surface
MaxCutoff == 1     \* fes_cutoff values are 0..MaxCutoff
MaxOps == 4        \* calls made on one Loader

Coord == 0..MaxCoord
Pts(d) == [1..d -> Coord]
SeqsOf(S, lo, hi) == UNION {[1..n -> S] : n \in lo..hi}
Max(a, b) == IF a >= b THEN a ELSE b
Min(a, b) == IF a <= b THEN a ELSE b

(* --------------------------- python values ---------------------------- *)
None == [tag |-> "None"]
Unset == [tag |-> "unset"]          \* attribute never assigned
Raise(e) == [exc |-> e, val |-> None]
Return(v) == [exc |-> "none", val |-> v]
DataFrame(rows) == [tag |-> "DataFrame", rows |-> rows]
List(items) == [tag |-> "list", items |-> items]
Array(pts) == [tag |-> "ndarray", pts |-> pts]

(* ----------------------- _basin_selection ----------------------------- *)
\* numpy broadcasting of the trailing axis of (N,1,D) against (M,Dm)
Broadcastable(d, dm) == d = dm \/ d = 1 \/ dm = 1

\* coordinate k of a point stretched along a broadcast axis of length 1
At(p, k) == IF Len(p) = 1 THEN p[1] ELSE p[k]

RECURSIVE SumSq(_, _, _)
SumSq(p, m, k) ==
  IF k = 0 THEN 0
  ELSE (At(p, k) - At(m, k)) * (At(p, k) - At(m, k)) + SumSq(p, m, k - 1)

\* np.linalg.norm(..., axis=2) of one (sample, minimum) pair, squared: the
\* square root is increasing, so comparisons of norms are comparisons of these
norm2(p, m) == SumSq(p, m, Max(Len(p), Len(m)))

norms(p, mins) == [j \in 1..Len(mins) |-> norm2(p, mins[j])]

\* np.argmin scans left to right and keeps the first smallest entry
RECURSIVE ArgMinScan(_, _, _)
ArgMinScan(row, k, best) ==
  IF k > Len(row) THEN best
  ELSE ArgMinScan(row, k + 1, IF row[k] < row[best] THEN k ELSE best)

RECURSIVE ArgMinScanLast(_, _, _)
ArgMinScanLast(row, k, best) ==
  IF k > Len(row) THEN best
  ELSE ArgMinScanLast(row, k + 1, IF row[k] <= row[best] THEN k ELSE best)

\* a scan that keeps the last smallest entry
argmin_last(row) == ArgMinScanLast(row, 2, 1) - 1

\* 0-based index, row non-empty
argmin(row) == ArgMinScan(row, 2, 1) - 1

\* lines 283-284: classes, or the ValueError numpy raises
classes_of(positions, mins) ==
  IF Len(mins) = 0 THEN Raise("ValueError")
  ELSE IF \E i \in 1..Len(positions), j \in 1..Len(mins) :
            ~Broadcastable(Len(positions[i]), Len(mins[j]))
       THEN Raise("ValueError")
  ELSE Return([i \in 1..Len(positions) |-> argmin(norms(positions[i], mins))])

\* self.fes(X): the surface f = [dim, val] evaluated row by row; a query whose
\* rows are not points of the density's dimension is rejected
fes_call(f, X) ==
  IF \E i \in 1..Len(X) : Len(X[i]) # f.dim THEN Raise("InvalidInputError")
  ELSE Return([i \in 1..Len(X) |-> f.val[X[i]]])

\* a reference level that is never looked up
ref_fes_zero(f, mins, classes) == Return([i \in 1..Len(classes) |-> 0])

\* lines 285-286: the FES at the minimum of each sample's class
ref_fes(f, mins, classes) ==
  LET fes_at_minima == fes_call(f, mins)
  IN  IF fes_at_minima.exc # "none" THEN fes_at_minima
      ELSE IF \E i \in 1..Len(classes) :
                classes[i] + 1 > Len(fes_at_minima.val)
           THEN Raise("IndexError")
      ELSE Return([i \in 1..Len(classes) |->
                     fes_at_minima.val[classes[i] + 1]])

ChunkSize(n, splits, k) ==
  (n \div splits) + (IF k <= n % splits THEN 1 ELSE 0)
ChunkStart(n, splits, k) ==
  (k - 1) * (n \div splits) + Min(k - 1, n % splits)

\* chunks of equal size only, the remainder dropped
array_split_even(X, splits) ==
  [k \in 1..splits |->
     SubSeq(X, (k - 1) * (Len(X) \div splits) + 1,
               k * (Len(X) \div splits))]

\* np.array_split(X, splits, axis=0), splits >= 1: contiguous chunks, the
\* first Len(X) % splits of them one row longer
array_split(X, splits) ==
  [k \in 1..splits |->
     SubSeq(X, ChunkStart(Len(X), splits, k) + 1,
               ChunkStart(Len(X), splits, k) + ChunkSize(Len(X), splits, k))]

RECURSIVE hstack(_)
hstack(parts) ==
  IF Len(parts) = 0 THEN <<>> ELSE Head(parts) \o hstack(Tail(parts))

\* lines 287-299: the FES at every sample, in one call or chunk by chunk
fes_pts_of(f, positions, memory_saver, splits) ==
  IF memory_saver
  THEN IF splits < 1 THEN Raise("ValueError")
       ELSE LET chunks == array_split(positions, splits)
                parts == [k \in 1..Len(chunks) |-> fes_call(f, chunks[k])]
            IN  IF \E k \in 1..Len(parts) : parts[k].exc # "none"
                THEN Raise("InvalidInputError")
                ELSE Return(hstack([k \in 1..Len(parts) |-> parts[k].val]))
  ELSE fes_call(f, positions)

\* a mask that keeps the samples exactly at the cutoff
mask_le(fes_pts, ref, fes_cutoff) ==
  [i \in 1..Len(fes_pts) |-> (fes_pts[i] - ref[i]) <= fes_cutoff]

\* line 300
mask_of(fes_pts, ref, fes_cutoff) ==
  [i \in 1..Len(fes_pts) |-> (fes_pts[i] - ref[i]) < fes_cutoff]

\* lines 301-303: a fresh frame, so its index is 0..N-1; `frame` is filled
\* in by the caller that knows which frame each sample came from
LabelRows(classes, mask) ==
  [i \in 1..Len(classes) |->
     [idx |-> i - 1, basin |-> classes[i], selection |-> mask[i]]]

\* the body of Loader._basin_selection with self.KDE.dataset = positions and
\* self.fes = f
basin_selection_body(positions, f, mins, fes_cutoff, memory_saver, splits) ==
  LET cls == classes_of(positions, mins)
  IN  IF cls.exc # "none" THEN cls
      ELSE
      LET ref == ref_fes(f, mins, cls.val)
      IN  IF ref.exc # "none" THEN ref
          ELSE
          LET pts == fes_pts_of(f, positions, memory_saver, splits)
          IN  IF pts.exc # "none" THEN pts
              ELSE IF Len(pts.val) # Len(ref.val) THEN Raise("ValueError")
              ELSE Return(DataFrame(
                     LabelRows(cls.val, mask_of(pts.val, ref.val, fes_cutoff))))

\* an empty minima set answered with an empty label frame instead of an error
basin_selection_lenient(positions, f, mins, fes_cutoff, memory_saver, splits) ==
  IF Len(mins) = 0 THEN Return(DataFrame(<<>>))
  ELSE basin_selection_body(positions, f, mins, fes_cutoff, memory_saver, splits)

\* Loader._basin_selection: whatever the body raises reaches the caller
basin_selection(positions, f, mins, fes_cutoff, memory_saver, splits) ==
  basin_selection_body(positions, f, mins, fes_cutoff, memory_saver, splits)

(* --------------------------- pandas tables ----------------------------- *)
NaN == [tag |-> "NaN"]

\* df.iloc[::stride, :]: every stride-th row, each keeping its index label
iloc_stride(rows, s) ==
  [k \in 1..((Len(rows) + s - 1) \div s) |-> rows[(k - 1) * s + 1]]

Labels_of(rows) == {rows[i].idx : i \in 1..Len(rows)}

\* the row of a table at an index label, NaN where the table has none
Cell(rows, l) ==
  IF l \in Labels_of(rows)
  THEN rows[CHOOSE i \in 1..Len(rows) : rows[i].idx = l]
  ELSE NaN

RECURSIVE SortedSeq(_)
SortedSeq(S) ==
  IF S = {} THEN <<>>
  ELSE LET m == CHOOSE x \in S : \A y \in S : x <= y
       IN  <<m>> \o SortedSeq(S \ {m})

\* pd.concat([a, b, c], axis=1): an outer join on the index labels, one row
\* per label of any of the three tables; a None entry is dropped by pandas
concat_axis1(a, b, c) ==
  LET labels == SortedSeq(Labels_of(a) \cup Labels_of(b) \cup Labels_of(c))
  IN  [tag |-> "DataFrame",
       rows |-> [n \in 1..Len(labels) |->
                   [idx |-> labels[n],
                    colvar |-> Cell(a, labels[n]),
                    basins |-> Cell(b, labels[n]),
                    descriptors |-> Cell(c, labels[n])]]]

\* self.colvar[cols]: the chosen columns of every row
Columns_of(rows, cols) ==
  [i \in 1..Len(rows) |->
     [rows[i] EXCEPT !.cv = [k \in 1..Len(cols) |-> rows[i].cv[cols[k]]]]]

\* self.colvar[cols].to_numpy(): the values without the index
to_numpy(rows, cols) ==
  [i \in 1..Len(rows) |-> [k \in 1..Len(cols) |-> rows[i].cv[cols[k]]]]

(* ----------------------------- collect_data ---------------------------- *)
\* without the check on self.basins: pandas drops the None entry
collect_data_unchecked(cv, sel, bas, desc, only_selected_cvs) ==
  IF only_selected_cvs /\ sel = Unset THEN Raise("AttributeError")
  ELSE IF desc = Unset THEN Raise("AttributeError")
  ELSE Return(concat_axis1(
         IF only_selected_cvs THEN Columns_of(cv, sel.items) ELSE cv,
         IF bas = None THEN <<>> ELSE bas.rows,
         desc.rows))

\* Loader.collect_data: the value returned or the exception raised
collect_data_of(cv, sel, bas, desc, only_selected_cvs) ==
  IF bas = None THEN Raise("KeyError")
  ELSE IF only_selected_cvs /\ sel = Unset THEN Raise("AttributeError")
  ELSE IF desc = Unset THEN Raise("AttributeError")
  ELSE Return(concat_axis1(
         IF only_selected_cvs THEN Columns_of(cv, sel.items) ELSE cv,
         bas.rows,
         desc.rows))

(* ------------------ density estimate and minima search ------------------ *)
Uniform(n) == [i \in 1..n |-> 1]

\* gaussian_kde(dataset): the fitted estimator keeps its sample set and the
\* weights it was given (none given: uniform)
gaussian_kde(dataset) ==
  [tag |-> "KDE", dataset |-> dataset, weights |-> Uniform(Len(dataset))]

\* some coordinate takes one value only: the kernel covariance is singular
Singular(dataset) ==
  \E k \in 1..Len(dataset[1]) :
    \A i \in 1..Len(dataset) : dataset[i][k] = dataset[1][k]

\* the kernel at squared distance d2, a Gaussian in base 2 cut off at 0
Kern(d2) == IF d2 = 0 THEN 4 ELSE IF d2 = 1 THEN 2 ELSE IF d2 = 2 THEN 1 ELSE 0

RECURSIVE KernSum(_, _, _)
KernSum(kde, x, i) ==
  IF i = 0 THEN 0
  ELSE kde.weights[i] * Kern(norm2(x, kde.dataset[i])) + KernSum(kde, x, i - 1)

RECURSIVE ILog2(_)
ILog2(n) == IF n <= 1 THEN 0 ELSE 1 + ILog2(n \div 2)

\* KDE.logpdf at one point: the log of the weighted kernel sum, a large
\* negative number where the sum vanishes.  The normalisation by the total
\* weight shifts every value alike and is left out.
logpdf(kde, x) ==
  IF KernSum(kde, x, Len(kde.dataset)) = 0 THEN 0 - 4
  ELSE ILog2(KernSum(kde, x, Len(kde.dataset)))

Surface(d, table) == [tag |-> "fes", dim |-> d, val |-> table]

\* line 232: self.fes = lambda X: -self.kbt * self.KDE.logpdf(X), tabulated
fes_lambda(T, kde) ==
  Surface(Len(kde.dataset[1]),
          [p \in Pts(Len(kde.dataset[1])) |-> (0 - T) * logpdf(kde, p)])

InBox(p, bounds) ==
  \A k \in 1..Len(p) : bounds[k][1] <= p[k] /\ p[k] <= bounds[k][2]

RECURSIVE RankTo(_, _)
RankTo(p, k) == IF k = 0 THEN 0 ELSE RankTo(p, k - 1) * (MaxCoord + 1) + p[k]
Rank(p) == RankTo(p, Len(p))

RECURSIVE RankedSeq(_)
RankedSeq(S) ==
  IF S = {} THEN <<>>
  ELSE LET m == CHOOSE x \in S : \A y \in S : Rank(x) <= Rank(y)
       IN  <<m>> \o RankedSeq(S \ {m})

\* local_minima(fes, bounds): the grid points inside the box that no
\* neighbour inside the box undercuts, in a fixed order
local_minima(f, bounds) ==
  RankedSeq({p \in DOMAIN f.val :
               /\ InBox(p, bounds)
               /\ \A q \in DOMAIN f.val :
                    (InBox(q, bounds) /\ norm2(p, q) = 1) => f.val[p] <= f.val[q]})

(* ------------------ the object around a fitted density ----------------- *)
\* the defaults of the signature of identify_states (lines 137 and 141)
fes_cutoff_default == 5
splits_default == 50

Cutoffs == 0..MaxCutoff
Splits == 1..MaxSamples

\* memory_saver and splits as passed: the defaults, or batching in n chunks
Batching == {<<FALSE, splits_default>>} \cup {<<TRUE, n>> : n \in Splits}

NoHist == [descArg |-> FALSE, computeRan |-> FALSE, completed |-> FALSE, ops |-> 0]
NoCall == [op |-> "init", args |-> None, exc |-> "none", value |-> None]

\* rows of a table whose k-th frame holds the point X[k]
TableOf(X) ==
  [i \in 1..Len(X) |-> [idx |-> i - 1, frame |-> i - 1, cv |-> X[i], bias |-> 0]]

\* a Loader whose density was fitted on `positions` and whose free energy
\* surface is the table `table`
Fitted(positions, d, table) ==
  /\ colvar = TableOf(positions)
  /\ descriptors = Unset
  /\ kbt = 1
  /\ stride = 1
  /\ traj = None
  /\ basins = None
  /\ selected_cvs = List([k \in 1..d |-> k])
  /\ KDE = gaussian_kde(positions)
  /\ fes = Surface(d, table)
  /\ minima = Unset
  /\ ret = NoCall
  /\ hist = NoHist

\* a direct call of _basin_selection(minima, fes_cutoff, memory_saver, splits)
\* on a Loader that has not been called yet (the call changes no attribute,
\* so a second call would start from the same object)
CallBasinSelection(mins, fes_cutoff, memory_saver, splits) ==
  LET r == basin_selection(KDE.dataset, fes, mins, fes_cutoff, memory_saver, splits)
  IN  /\ ret.op = "init"
      /\ ret' = [op |-> "_basin_selection",
                 args |-> [minima |-> mins, fes_cutoff |-> fes_cutoff,
                           memory_saver |-> memory_saver, splits |-> splits],
                 exc |-> r.exc, value |-> r.val]
      /\ UNCHANGED <<colvar, descriptors, kbt, stride, traj, basins,
                     selected_cvs, KDE, fes, minima, hist>>

(* --- basin assignment on an arbitrary surface, minima of the same dimension *)
BasinDims == 1..2

InitBasin ==
  \E d \in BasinDims :
    \E positions \in SeqsOf(Pts(d), 1, MaxSamples) :
      \E table \in [Pts(d) -> 0..MaxFes] :
        Fitted(positions, d, table)

BasinCall ==
  \E mins \in SeqsOf(Pts(fes.dim), 1, MaxMinima) :
    \E fes_cutoff \in Cutoffs :
      \E batch \in Batching :
        CallBasinSelection(mins, fes_cutoff, batch[1], batch[2])

NextBasin == BasinCall

SpecBasin == InitBasin /\ [][NextBasin]_vars

(* --- basin assignment with minima of any dimension, empty sets included --- *)
MaxSamplesDim == 2   \* samples of the density in the dimension spec

\* surfaces that depend on the first coordinate only
Ramps(d) ==
  {[p \in Pts(d) |-> IF p[1] = 0 THEN a ELSE b] : a, b \in 0..MaxFes}

InitDims ==
  \E d \in 1..MaxDim :
    \E positions \in SeqsOf(Pts(d), 1, MaxSamplesDim) :
      \E table \in Ramps(d) :
        Fitted(positions, d, table)

DimsCall ==
  \E dm \in 1..MaxDim :
    \E mins \in SeqsOf(Pts(dm), 0, MaxMinima) :
      \E fes_cutoff \in Cutoffs :
        \E batch \in Batching :
          CallBasinSelection(mins, fes_cutoff, batch[1], batch[2])

NextDims == DimsCall

SpecDims == InitDims /\ [][NextDims]_vars

(* ------------------------------ the Loader ----------------------------- *)
CVs == {1, 2}      \* the collective variable columns of colvar

\* the collective variables of frame f: its digits in base MaxCoord + 1, the
\* high digit first
FrameCV(f) ==
  [k \in CVs |-> IF k = 1 THEN (f \div (MaxCoord + 1)) % (MaxCoord + 1)
                 ELSE f % (MaxCoord + 1)]

\* what load_dataframe hands over: one row per frame, labelled 0..n-1
InputColvar(n) ==
  [i \in 1..n |->
     [idx |-> i - 1, frame |-> i - 1, cv |-> FrameCV(i - 1), bias |-> (i - 1) % 2]]

InputDescriptors(n) == [i \in 1..n |-> [idx |-> i - 1, frame |-> i - 1]]

\* Loader.__init__(colvar, descriptors, kbt, stride): the states after a
\* construction that raised nothing
Init ==
  \E n \in 1..MaxFrames, s \in 1..MaxStride, T \in 1..MaxKbt :
    /\ colvar = iloc_stride(InputColvar(n), s)
    /\ \/ /\ descriptors = Unset
          /\ hist = NoHist
       \/ \E nd \in 1..MaxFrames, time \in BOOLEAN :
            /\ Len(iloc_stride(InputDescriptors(nd), s)) = Len(colvar)
            /\ descriptors =
                 [tag |-> "DataFrame",
                  columns |-> (IF time THEN {"time", "d"} ELSE {"d"}) \ {"time"},
                  rows |-> iloc_stride(InputDescriptors(nd), s)]
            /\ hist = [NoHist EXCEPT !.descArg = TRUE]
    /\ kbt = T
    /\ stride = s
    /\ traj = None
    /\ basins = None
    /\ selected_cvs = Unset
    /\ KDE = Unset
    /\ fes = Unset
    /\ minima = Unset
    /\ ret = NoCall

\* Loader.load_trajectory: md.load reads every stride-th of nframes frames
load_trajectory(nframes) ==
  LET loaded == [tag |-> "Trajectory", n |-> (nframes + stride - 1) \div stride]
  IN  /\ traj' = loaded
      /\ ret' = [op |-> "load_trajectory", args |-> [nframes |-> nframes],
                 exc |-> IF loaded.n = Len(colvar) THEN "none" ELSE "AssertionError",
                 value |-> None]
      /\ hist' = [hist EXCEPT !.ops = @ + 1]
      /\ UNCHANGED <<colvar, descriptors, kbt, stride, basins,
                     selected_cvs, KDE, fes, minima>>

\* Loader.compute_descriptors: the tables computed from the trajectory are
\* fresh frames, labelled 0..len(traj)-1; row k describes frame k * stride
compute_descriptors ==
  /\ hist' = [hist EXCEPT !.computeRan = TRUE, !.ops = @ + 1]
  /\ IF traj = None
     THEN /\ ret' = [op |-> "compute_descriptors", args |-> None,
                     exc |-> "KeyError", value |-> None]
          /\ UNCHANGED descriptors
     ELSE /\ descriptors' =
               [tag |-> "DataFrame", columns |-> {"d"},
                rows |-> [k \in 1..traj.n |->
                            [idx |-> k - 1, frame |-> (k - 1) * stride]]]
          /\ ret' = [op |-> "compute_descriptors", args |-> None,
                     exc |-> IF traj.n = Len(colvar) THEN "none"
                             ELSE "AssertionError",
                     value |-> None]
  /\ UNCHANGED <<colvar, kbt, stride, traj, basins,
                 selected_cvs, KDE, fes, minima>>

\* the logweights a caller may pass: nothing, the name of the bias column, a
\* one-column DataFrame, a 1-D array, or a list
LogweightArgs ==
  {[kind |-> "None", w |-> <<>>],
   [kind |-> "str", w |-> [i \in 1..Len(colvar) |-> colvar[i].bias]],
   [kind |-> "DataFrame", w |-> [i \in 1..Len(colvar) |-> i % 2]],
   [kind |-> "ndarray", w |-> [i \in 1..Len(colvar) |-> i % 2]],
   [kind |-> "list", w |-> <<>>]}

\* lines 144-161: the exception the validation of logweights raises, if any.
\* DataFrame.values is two-dimensional whatever the number of columns.
logweights_check(lw) ==
  IF lw.kind = "None" THEN "none"
  ELSE IF lw.kind \notin {"str", "DataFrame", "ndarray"} THEN "TypeError"
  ELSE IF lw.kind = "DataFrame" THEN "ValueError"
  ELSE "none"

\* the ascending selections of collective variable columns
Selections ==
  {<<1>>, <<2>>, <<1, 2>>}

\* the boxes a caller may search: the whole grid, or a box that holds no
\* grid point
Boxes(d) ==
  {[k \in 1..d |-> <<0, MaxCoord>>],
   [k \in 1..d |-> <<MaxCoord + 1, MaxCoord + 2>>]}

\* the label frame of a run, each row tagged with the frame of its sample
\* and the frame as a whole with the selection and minima it was computed from
Tagged(df, cv, sel, mins) ==
  [tag |-> "DataFrame",
   rows |-> [i \in 1..Len(df.rows) |->
               [idx |-> df.rows[i].idx, basin |-> df.rows[i].basin,
                selection |-> df.rows[i].selection, frame |-> cv[i].frame]],
   cvs |-> sel, minima |-> mins]

CallNote(stage, empty) == [stage |-> stage, emptyMinima |-> empty]

\* Loader.identify_states.  The estimator rejects a sample set whose kernel
\* covariance is singular.  emptyRaises: the minima search raises on an empty
\* result rather than returning it.  Every attribute assigned before the
\* raising line keeps its new value.
identify_states(sel, bounds, lw, fes_cutoff, memory_saver, splits, emptyRaises) ==
  LET call(e, note) == [op |-> "identify_states",
                        args |-> [logweights |-> lw],
                        exc |-> e, value |-> None, note |-> note]
      dataset == to_numpy(colvar, sel)
      kde == gaussian_kde(dataset)
      f == fes_lambda(kbt, kde)
      mins == local_minima(f, bounds)
      bs == basin_selection(dataset, f, mins, fes_cutoff, memory_saver, splits)
  IN  IF logweights_check(lw) # "none"
      THEN /\ ret' = call(logweights_check(lw), CallNote("logweights", FALSE))
           /\ hist' = [hist EXCEPT !.ops = @ + 1]
           /\ UNCHANGED <<selected_cvs, KDE, fes, minima, basins>>
      ELSE
      /\ selected_cvs' = List(sel)
      /\ IF Singular(dataset)
         THEN /\ ret' = call("SingularBandwidthError", CallNote("fit", FALSE))
              /\ hist' = [hist EXCEPT !.ops = @ + 1]
              /\ UNCHANGED <<KDE, fes, minima, basins>>
         ELSE
         /\ KDE' = kde
         /\ fes' = f
         /\ IF Len(mins) = 0 /\ emptyRaises
            THEN /\ ret' = call("NoMinimaFoundError", CallNote("minima", TRUE))
                 /\ hist' = [hist EXCEPT !.ops = @ + 1]
                 /\ UNCHANGED <<minima, basins>>
            ELSE
            /\ minima' = Array(mins)
            /\ IF bs.exc # "none"
               THEN /\ ret' = call(bs.exc, CallNote("basins", Len(mins) = 0))
                    /\ hist' = [hist EXCEPT !.ops = @ + 1]
                    /\ UNCHANGED basins
               ELSE /\ basins' = Tagged(bs.val, colvar, sel, mins)
                    /\ ret' = call("none", CallNote("done", Len(mins) = 0))
                    /\ hist' = [hist EXCEPT !.completed = TRUE, !.ops = @ + 1]

\* the defaults of memory_saver and splits, or batching in two chunks
LoaderBatching == {<<FALSE, splits_default>>, <<TRUE, 2>>}

\* the calls a client makes, at most MaxOps of them on one Loader
MayCall == hist.ops < MaxOps

Accepted == {lw \in LogweightArgs : logweights_check(lw) = "none"}

\* the search of the box finds nothing on the surface fitted to the selection
SearchIsEmpty(sel, bounds) ==
  /\ ~Singular(to_numpy(colvar, sel))
  /\ Len(local_minima(fes_lambda(kbt, gaussian_kde(to_numpy(colvar, sel))),
                      bounds)) = 0

\* identify_states(selected_cvs, bounds, logweights, memory_saver=, splits=);
\* a call whose logweights are refused reads no other argument; `outcomes`
\* are the ways the minima search may treat an empty result
IdentifyStatesWith(outcomes) ==
  \/ /\ MayCall
     /\ \E lw \in LogweightArgs \ Accepted :
          /\ identify_states(<<1>>, <<<<0, MaxCoord>>>>, lw, fes_cutoff_default,
                             FALSE, splits_default, TRUE)
          /\ UNCHANGED <<colvar, descriptors, kbt, stride, traj>>
  \/ /\ MayCall
     /\ \E sel \in Selections :
          \E bounds \in Boxes(Len(sel)) :
            \E emptyRaises \in IF SearchIsEmpty(sel, bounds) THEN outcomes
                               ELSE {TRUE} :
              \E lw \in Accepted :
                \E batch \in LoaderBatching :
                  /\ identify_states(sel, bounds, lw, fes_cutoff_default,
                                     batch[1], batch[2], emptyRaises)
                  /\ UNCHANGED <<colvar, descriptors, kbt, stride, traj>>

\* the minima search fails when it finds nothing
IdentifyStates == IdentifyStatesWith({TRUE})

\* the minima search fails when it finds nothing, or hands the empty result on
IdentifyStatesAnySearch == IdentifyStatesWith(BOOLEAN)

\* Loader.collect_data(only_selected_cvs)
collect_data(only_selected_cvs) ==
  LET r == collect_data_of(colvar, selected_cvs, basins, descriptors,
                           only_selected_cvs)
  IN  /\ ret' = [op |-> "collect_data",
                 args |-> [only_selected_cvs |-> only_selected_cvs],
                 exc |-> r.exc, value |-> r.val]
      /\ hist' = [hist EXCEPT !.ops = @ + 1]
      /\ UNCHANGED <<colvar, descriptors, kbt, stride, traj, basins,
                     selected_cvs, KDE, fes, minima>>

LoadTrajectory ==
  MayCall /\ \E nframes \in 1..MaxFrames : load_trajectory(nframes)
ComputeDescriptors == MayCall /\ compute_descriptors
CollectData ==
  MayCall /\ \E only_selected_cvs \in BOOLEAN : collect_data(only_selected_cvs)

Next ==
  \/ LoadTrajectory
  \/ ComputeDescriptors
  \/ IdentifyStates
  \/ CollectData

Spec == Init /\ [][Next]_vars

\* the same client on a Loader whose minima search may return an empty result
NextAnySearch ==
  \/ LoadTrajectory
  \/ ComputeDescriptors
  \/ IdentifyStatesAnySearch
  \/ CollectData

SpecAnySearch == Init /\ [][NextAnySearch]_vars

(* ------------------- claims on _basin_selection ------------------------ *)
Called == ret.op = "_basin_selection"
Labels == ret.value.rows
NSamples == Len(KDE.dataset)

RECURSIVE EuclidSq(_, _, _)
EuclidSq(p, m, k) ==
  IF k = 0 THEN 0 ELSE (p[k] - m[k]) * (p[k] - m[k]) + EuclidSq(p, m, k - 1)

\* squared Euclidean distance of two points of the same dimension
Dist(p, m) == EuclidSq(p, m, Len(p))

SameDim(mins) == \A j \in 1..Len(mins) : Len(mins[j]) = fes.dim

\* C5: for a non-empty minima sequence every sample gets one basin index,
\* the lowest index among the minima at minimal Euclidean distance from it,
\* so the index is in [0, N_minima) and there is one label per sample, in
\* input order.
C5_NearestLowestIndex ==
  (Called /\ Len(ret.args.minima) > 0 /\ SameDim(ret.args.minima)) =>
    /\ ret.exc = "none"
    /\ Len(Labels) = NSamples
    /\ \A i \in 1..NSamples :
         LET p == KDE.dataset[i]
             mins == ret.args.minima
             b == Labels[i].basin
         IN  /\ Labels[i].idx = i - 1
             /\ b \in 0..(Len(mins) - 1)
             /\ \A j \in 1..Len(mins) : Dist(p, mins[b + 1]) <= Dist(p, mins[j])
             /\ \A j \in 1..b : Dist(p, mins[j]) > Dist(p, mins[b + 1])

\* a sample with two minima at the same minimal distance was labelled
C5_Witness ==
  /\ Called /\ ret.exc = "none" /\ Len(ret.args.minima) = 2
  /\ \E i \in 1..NSamples :
       /\ Dist(KDE.dataset[i], ret.args.minima[1])
            = Dist(KDE.dataset[i], ret.args.minima[2])
       /\ ret.args.minima[1] # ret.args.minima[2]
       /\ Labels[i].basin = 0

\* C6: a sample is selected iff its FES minus the FES at the minimum of the
\* basin it was assigned to is strictly below the cutoff.
C6_SelectionIffBelowCutoff ==
  (Called /\ ret.exc = "none") =>
    \A i \in 1..Len(Labels) :
      Labels[i].selection =
        (fes.val[KDE.dataset[i]]
           - fes.val[ret.args.minima[Labels[i].basin + 1]]
         < ret.args.fes_cutoff)

\* a sample exactly at the cutoff above its own minimum was left out, although
\* it lies below the cutoff measured from the other minimum
C6_Witness ==
  /\ Called /\ ret.exc = "none" /\ Len(ret.args.minima) = 2
  /\ \E i \in 1..Len(Labels) :
       /\ Labels[i].basin = 1
       /\ fes.val[KDE.dataset[i]] - fes.val[ret.args.minima[2]]
            = ret.args.fes_cutoff
       /\ fes.val[KDE.dataset[i]] - fes.val[ret.args.minima[1]]
            < ret.args.fes_cutoff
       /\ ~Labels[i].selection

\* C7: with memory_saver=True and splits in [1, N_samples] the outcome is the
\* outcome of the unbatched path on the same samples, minima, FES and cutoff:
\* the same basin index and selection flag for every sample, in the same order.
C7_BatchedEqualsUnbatched ==
  (Called /\ ret.args.memory_saver /\ ret.args.splits \in 1..NSamples) =>
    [exc |-> ret.exc, val |-> ret.value]
      = basin_selection(KDE.dataset, fes, ret.args.minima,
                        ret.args.fes_cutoff, FALSE, ret.args.splits)

\* three samples were labelled in two chunks of unequal length, and the
\* samples do not all get the same flag
C7_Witness ==
  /\ Called /\ ret.exc = "none" /\ ret.args.memory_saver
  /\ NSamples = 3 /\ ret.args.splits = 2
  /\ Labels[3].selection # Labels[1].selection

Collected == ret.op = "collect_data"
Identified == ret.op = "identify_states"
Table == ret.value.rows

\* C1: collect_data called while no identify_states call has completed fails
\* with the KeyError of the basins check and returns no table.
C1_CollectBeforeIdentifyFails ==
  (Collected /\ ~hist.completed) => (ret.exc = "KeyError" /\ ret.value = None)

\* collect_data was refused on a Loader with descriptors whose only
\* identify_states call had failed after storing its selection
C1_Witness ==
  /\ Collected /\ ~hist.completed /\ ret.exc = "KeyError"
  /\ selected_cvs # Unset /\ descriptors # Unset

\* C2: after a successful identify_states, collect_data returns one row per
\* retained frame, in frame order, the i-th row holding the collective
\* variables, the basin label and the descriptors of the i-th retained frame,
\* with no extra row and no empty cell.
C2_OneAlignedRowPerFrame ==
  (Collected /\ hist.completed /\ descriptors # Unset) =>
    /\ ret.exc = "none"
    /\ Len(Table) = Len(colvar)
    /\ \A i \in 1..Len(Table) :
         /\ Table[i].colvar # NaN
         /\ Table[i].basins # NaN
         /\ Table[i].descriptors # NaN
         /\ i <= Len(colvar)
         /\ Table[i].colvar.frame = colvar[i].frame
         /\ Table[i].basins.frame = colvar[i].frame
         /\ Table[i].descriptors.frame = colvar[i].frame

\* C3: whenever logweights is supplied, the density is fitted with the
\* weights derived from it (the exponentials of the log-weights).
C3_FitUsesLogweights ==
  (Identified /\ ret.note.stage \in {"minima", "basins", "done"}
     /\ ret.args.logweights.kind # "None") =>
    KDE.weights = [i \in 1..Len(ret.args.logweights.w) |->
                     2 ^ ret.args.logweights.w[i]]

\* C4: a failed identify_states leaves no partial results, so the basins a
\* later collect_data merges were computed from the stored selection and the
\* stored minima.
C4_BasinsMatchDerivedFields ==
  (Collected /\ ret.exc = "none") =>
    (basins.cvs = selected_cvs.items /\ Array(basins.minima) = minima)

C10_DescriptorsOptional ==
  (Collected /\ hist.completed /\ ~hist.descArg /\ ~hist.computeRan) =>
    (ret.exc = "none" /\ ret.value # None)
====
